---- MODULE Spec2Model ----
(***************************************************************************)
(* Model of the libSoX "trim" effect (src/src/trim.c): option parsing,     *)
(* position resolution and output-length calculation in start(), the       *)
(* copy/discard loop of flow(), drain() and the start-skip interface       *)
(* sox_trim_get_start() / sox_trim_clear_start().                          *)
(*                                                                         *)
(* uint64_t is modelled as the integers modulo 2^WordBits; every           *)
(* arithmetic operation on a uint64_t value is reduced modulo Modulus.     *)
(* A position string is modelled by the sample count it denotes ("3s" is   *)
(* 3); BadArg is a string the position parser rejects.                     *)
(***************************************************************************)
EXTENDS Integers, Sequences, FiniteSets, TLC

\* ---------------------------------------------------------------- bounds
WordBits == 4        \* width of the modelled uint64_t
MaxPos == 3          \* most positions given on the command line
MaxVal == 1          \* largest ordinary position value (Modulus-1 is added)
MaxChan == 2         \* channels of a multi-channel signal (1 is mono)
MaxFrames == 3       \* most frames in the input stream / declared length
MaxBuf == 4          \* largest buffer size (in samples) offered to flow

Modulus == 2 ^ WordBits
SOX_UNKNOWN_LEN == Modulus - 1      \* (sox_uint64_t)(-1)
NotSet == -1                         \* out_signal.length not written by start
BadArg == -1                         \* a position string with a syntax error
NullStr == -2                        \* argstr of a calloc'ed, unparsed entry

NoMessage == [text |-> "", n |-> 0]

Min(a, b) == IF a < b THEN a ELSE b

VARIABLES
  phase,          \* "new","usage","parsed","failed","null","ready","flowing","drained"
  num_pos,        \* priv_t.num_pos
  pos,            \* priv_t.pos: sequence of [sample, argstr, anchor]
  current_pos,    \* priv_t.current_pos
  samples_read,   \* priv_t.samples_read
  copying,        \* priv_t.copying
  uses_end,       \* priv_t.uses_end
  channels,       \* effp->in_signal.channels
  in_signal_length,  \* effp->in_signal.length
  out_signal_length, \* effp->out_signal.length
  start_ret,      \* value returned by start ("none" before)
  message,        \* last lsx_fail / lsx_warn: [text, n] (text "" if none)
  nframes,        \* frames the input stream really holds
  inpos,          \* frames of the stream already consumed (or seeked over)
  out,            \* samples written to the output so far
  isamp_total,    \* sum of *isamp reported by flow
  osamp_total,    \* sum of *osamp reported by flow and drain
  flow_ret,       \* value returned by the last flow call ("none" before)
  drain_ret,      \* value returned by drain ("none" before)
  acked,          \* sox_trim_clear_start was called
  modes           \* per stream frame: "seek", "drop" or "copy"

vars == <<phase, num_pos, pos, current_pos, samples_read, copying, uses_end,
          channels, in_signal_length, out_signal_length, start_ret, message,
          nframes, inpos, out, isamp_total, osamp_total, flow_ret,
          drain_ret, acked, modes>>

privVars == <<num_pos, pos, current_pos, samples_read, copying, uses_end>>
hostVars == <<nframes, inpos, out, isamp_total, osamp_total, flow_ret,
              drain_ret, acked, modes>>

\* ------------------------------------------------------------ arguments
Values == (0 .. MaxVal) \cup {Modulus - 1}
Prefixes == {"=", "-", ""}
Args == [prefix : Prefixes, body : Values] \cup {[prefix |-> "", body |-> BadArg]}

RECURSIVE SeqsUpTo(_, _)
SeqsUpTo(S, n) ==
  IF n = 0 THEN {<<>>}
  ELSE LET shorter == SeqsUpTo(S, n - 1)
       IN  shorter \cup {Append(s, x) : s \in {t \in shorter : Len(t) = n - 1}, x \in S}

\* lsx_parsesamples: the sample count of a position string, or "NULL"
ParseSamples(str) ==
  IF str = BadArg \/ str = NullStr THEN [ok |-> FALSE, s |-> 0]
  ELSE [ok |-> TRUE, s |-> str % Modulus]

ZeroPos == [sample |-> 0, argstr |-> NullStr, anchor |-> "a_start"]

AnchorOf(arg) ==
  IF arg.prefix = "=" THEN "a_start"
  ELSE IF arg.prefix = "-" THEN "a_end"
  ELSE "a_latest"

\* a flag that is overwritten by every entry instead of being kept once set
UsesEndOverwritten(ue, prefix) == prefix = "-"

\* lines 49, 56-58: uses_end after an entry with this prefix
UsesEnd(ue, prefix) == ue \/ prefix = "-"

\* parse(): loop body for entry i and on; stops at the first syntax error
RECURSIVE ParseLoop(_, _, _, _)
ParseLoop(argv, i, p, ue) ==
  IF i > Len(argv) THEN [ok |-> TRUE, pos |-> p, uses_end |-> ue]
  ELSE LET arg == argv[i]
           p1  == [p EXCEPT ![i] = [sample |-> 0, argstr |-> arg.body,
                                    anchor |-> AnchorOf(arg)]]
           ue1 == UsesEnd(ue, arg.prefix)
       IN  IF ~ParseSamples(arg.body).ok
           THEN [ok |-> FALSE, pos |-> p1, uses_end |-> ue1]
           ELSE ParseLoop(argv, i + 1, p1, ue1)

Init ==
  /\ phase = "new"
  /\ num_pos = 0
  /\ pos = <<>>
  /\ current_pos = 0
  /\ samples_read = 0
  /\ copying = FALSE
  /\ uses_end = FALSE
  /\ channels = 1
  /\ in_signal_length = SOX_UNKNOWN_LEN
  /\ out_signal_length = NotSet
  /\ start_ret = "none"
  /\ message = NoMessage
  /\ nframes = 0
  /\ inpos = 0
  /\ out = <<>>
  /\ isamp_total = 0
  /\ osamp_total = 0
  /\ flow_ret = "none"
  /\ drain_ret = "none"
  /\ acked = FALSE
  /\ modes = <<>>

Parse ==
  /\ phase = "new"
  /\ \E argv \in SeqsUpTo(Args, MaxPos) :
     \E r \in {ParseLoop(argv, 1, [i \in 1 .. Len(argv) |-> ZeroPos], FALSE)} :
           /\ num_pos' = Len(argv)
           /\ pos' = r.pos
           /\ uses_end' = r.uses_end
           /\ phase' = IF r.ok THEN "parsed" ELSE "usage"
  /\ UNCHANGED <<current_pos, samples_read, copying, channels, in_signal_length,
                 out_signal_length, start_ret, message>>
  /\ UNCHANGED hostVars

\* ------------------------------------------------------------- start()
InLength(length, chan) ==
  IF length # SOX_UNKNOWN_LEN THEN length \div chan ELSE SOX_UNKNOWN_LEN

\* line 83: positions relative to the end need a known length
NeedsLength(in_length, ue) == in_length = SOX_UNKNOWN_LEN /\ ue

\* the test off by one
BeforeStartOffByOne(s, in_length) == s > in_length + 1

\* line 95: an end-relative position before the start of the audio
BeforeStart(s, in_length) == s > in_length

\* lines 91-101: the absolute position of one entry
Resolved(anchor, last_seen, s, in_length) ==
  CASE anchor = "a_start"  -> s
    [] anchor = "a_latest" -> (last_seen + s) % Modulus
    [] anchor = "a_end"    -> (in_length - s) % Modulus

\* lines 87-104
RECURSIVE ResolveLoop(_, _, _, _)
ResolveLoop(i, last_seen, p, in_length) ==
  IF i > Len(p) THEN [ret |-> "ok", msg |-> NoMessage, pos |-> p]
  ELSE LET ps == ParseSamples(p[i].argstr)
       IN  IF ~ps.ok
           THEN [ret |-> "SOX_EOF", msg |-> [text |-> "usage", n |-> 0], pos |-> p]
           ELSE IF p[i].anchor = "a_end" /\ BeforeStart(ps.s, in_length)
           THEN [ret |-> "SOX_EOF",
                 msg |-> [text |-> "Position %u is before start of audio.", n |-> i],
                 pos |-> p]
           ELSE LET res == Resolved(p[i].anchor, last_seen, ps.s, in_length)
                IN  ResolveLoop(i + 1, res, [p EXCEPT ![i].sample = res], in_length)

\* a comparison that lets a position fall behind its predecessor by one
OutOfOrderSlack(sample, last_seen) == sample + 1 < last_seen

\* line 109
OutOfOrder(sample, last_seen) == sample < last_seen

\* lines 107-114: 0 if the positions are in order, else the 1-based index of
\* the first entry that is smaller than its predecessor
RECURSIVE SanityLoop(_, _, _)
SanityLoop(i, last_seen, p) ==
  IF i > Len(p) THEN 0
  ELSE IF OutOfOrder(p[i].sample, last_seen) THEN i
  ELSE SanityLoop(i + 1, p[i].sample, p)

\* the test off by one
AfterEndOffByOne(n, sample, in_length) ==
  n # 0 /\ in_length # SOX_UNKNOWN_LEN /\ sample > in_length + 1

\* lines 115-116 and 120-121
AfterEnd(n, sample, in_length) ==
  n # 0 /\ in_length # SOX_UNKNOWN_LEN /\ sample > in_length

\* the test taking an empty list of positions for a single position at 0
IsNullEffectOrEmpty(n, p) == n = 0 \/ (n = 1 /\ p[1].sample = 0)

\* the test without the requirement of exactly one position
IsNullEffectAnyCount(n, p) == n >= 1 /\ p[1].sample = 0

\* line 126
IsNullEffect(n, p) == n = 1 /\ p[1].sample = 0

\* lines 135-137: the sum over the pairs (i, i+1), i = 0, 2, ... (0-based)
RECURSIVE PairSum(_, _, _)
PairSum(i, p, acc) ==
  IF i + 1 > Len(p) THEN acc
  ELSE PairSum(i + 2, p, (acc + (p[i + 1].sample - p[i].sample)) % Modulus)

\* the length left in frames: the final multiplication by channels forgotten
OutputLengthInFrames(n, p, in_length, chan) ==
  LET open_end == n % 2 = 1
  IN  IF open_end /\ in_length = SOX_UNKNOWN_LEN THEN SOX_UNKNOWN_LEN
      ELSE LET pairs == PairSum(1, p, 0)
           IN  IF open_end
               THEN (pairs + (in_length - p[n].sample)) % Modulus
               ELSE pairs

\* lines 130-142
OutputLength(n, p, in_length, chan) ==
  LET open_end == n % 2 = 1
  IN  IF open_end /\ in_length = SOX_UNKNOWN_LEN THEN SOX_UNKNOWN_LEN
      ELSE LET pairs == PairSum(1, p, 0)
               total == IF open_end
                        THEN (pairs + (in_length - p[n].sample)) % Modulus
                        ELSE pairs
           IN  (total * chan) % Modulus

\* start() as a function of the private data and the input signal
StartResult(n, p, ue, length, chan) ==
  LET in_length == InLength(length, chan)
      keep == [ret |-> "SOX_EOF", msg |-> NoMessage, pos |-> p, out_length |-> NotSet]
  IN  IF NeedsLength(in_length, ue)
      THEN [keep EXCEPT !.msg =
              [text |-> "Can't use positions relative to end: audio length is unknown.",
               n |-> 0]]
      ELSE LET r == ResolveLoop(1, 0, p, in_length)
               bad == SanityLoop(1, 0, r.pos)
           IN  IF r.ret # "ok"
               THEN [keep EXCEPT !.msg = r.msg, !.pos = r.pos]
               ELSE IF bad # 0
               THEN [keep EXCEPT !.pos = r.pos, !.msg =
                       [text |-> "Position %u is behind the following position.",
                        n |-> bad - 1]]
               ELSE IF n # 0 /\ AfterEnd(n, r.pos[1].sample, in_length)
               THEN [keep EXCEPT !.pos = r.pos, !.msg =
                       [text |-> "Start position after end of audio.", n |-> 0]]
               ELSE IF n # 0 /\ AfterEnd(n, r.pos[n].sample, in_length)
               THEN [keep EXCEPT !.pos = r.pos, !.msg =
                       [text |-> "End position after end of audio.", n |-> 0]]
               ELSE IF IsNullEffect(n, r.pos)
               THEN [keep EXCEPT !.ret = "SOX_EFF_NULL", !.pos = r.pos]
               ELSE [ret |-> "SOX_SUCCESS", msg |-> NoMessage, pos |-> r.pos,
                     out_length |-> OutputLength(n, r.pos, in_length, chan)]

SignalLengths(chan) ==
  {SOX_UNKNOWN_LEN} \cup
  {f * chan : f \in {g \in 0 .. MaxFrames : g * chan < SOX_UNKNOWN_LEN}}

\* The host sets in_signal and calls start(); nf is the number of frames the
\* input stream will really deliver if the effect is put in the chain.
Start ==
  /\ phase = "parsed"
  /\ \E chan \in {1, MaxChan} :
     \E length \in SignalLengths(chan) :
     \E r \in {StartResult(num_pos, pos, uses_end, length, chan)} :
     \E nf \in IF r.ret = "SOX_SUCCESS" THEN 0 .. MaxFrames ELSE {0} :
       /\ channels' = chan
       /\ in_signal_length' = length
       /\ copying' = FALSE
       /\ pos' = r.pos
       /\ out_signal_length' = r.out_length
       /\ start_ret' = r.ret
       /\ message' = r.msg
       /\ phase' = CASE r.ret = "SOX_SUCCESS"  -> "ready"
                     [] r.ret = "SOX_EFF_NULL" -> "null"
                     [] OTHER                  -> "failed"
       /\ nframes' = nf
  /\ UNCHANGED <<num_pos, current_pos, samples_read, uses_end>>
  /\ UNCHANGED <<inpos, out, isamp_total, osamp_total, flow_ret, drain_ret,
                 acked, modes>>

\* -------------------------------------------------------------- flow()
\* the buffer length taken from the input alone
FrameCountInputOnly(isamp_in, osamp_in, chan) == isamp_in \div chan

\* lines 151-153: len = min(*isamp, *osamp) / channels
FrameCount(isamp_in, osamp_in, chan) == Min(isamp_in, osamp_in) \div chan

\* the test with an off-by-one bound on the position index
AtPositionButLast(cur, n, sr, p) == cur + 1 < n /\ sr = p[cur + 1].sample

\* the test with the position index taken modulo the number of positions
AtPositionWrap(cur, n, sr, p) == n > 0 /\ sr = p[(cur % n) + 1].sample

\* lines 159-160
AtPosition(cur, n, sr, p) == cur < n /\ sr = p[cur + 1].sample

\* copying switched on instead of toggled
ToggleOn(cop) == TRUE

\* line 161
Toggle(cop) == ~cop

\* the test without regard to copying
NothingLeftAnyMode(cur, n, cop) == cur >= n

\* line 165
NothingLeft(cur, n, cop) == cur >= n /\ ~cop

\* the chunk cut one frame after the next position
ChunkOvershoot(cur, n, sr, p, len) ==
  IF cur < n THEN Min(len, ((p[cur + 1].sample - sr) % Modulus) + 1) ELSE len

\* the chunk not cut at the next position
ChunkWholeBuffer(cur, n, sr, p, len) == len

\* lines 168-169
Chunk(cur, n, sr, p, len) ==
  IF cur < n THEN Min(len, (p[cur + 1].sample - sr) % Modulus) ELSE len

\* a count in frames where samples are meant
CopyCountFrames(chunk, chan) == chunk

\* lines 171-174: chunk * channels
CopyCount(chunk, chan) == chunk * chan

Repeat(x, k) == [j \in 1 .. k |-> x]

\* lines 156-178: the while loop.  f holds the locals and the private state:
\* len, iptr/optr (offsets of ibuf/obuf from their start), isamp, osamp, the
\* samples stored through obuf, and the mode each consumed frame was handled in.
\* steps counts the passes through the loop body that reach line 175; a pass
\* either moves current_pos on or consumes a frame, so passes beyond
\* fuel = len + (num_pos - current_pos) at entry mean the loop does not end:
\* ret is then "no return".
RECURSIVE FlowLoop(_, _, _, _, _)
FlowLoop(f, n, p, chan, ibuf) ==
  IF f.len = 0 THEN [f EXCEPT !.ret = "SOX_SUCCESS"]
  ELSE LET tog == AtPosition(f.current_pos, n, f.samples_read, p)
           cop == IF tog THEN Toggle(f.copying) ELSE f.copying
           cur == IF tog THEN f.current_pos + 1 ELSE f.current_pos
       IN  IF NothingLeft(cur, n, cop)
           THEN [f EXCEPT !.copying = cop, !.current_pos = cur, !.ret = "SOX_EOF"]
           ELSE IF f.steps >= f.fuel
           THEN [f EXCEPT !.copying = cop, !.current_pos = cur, !.ret = "no return"]
           ELSE LET chunk == Chunk(cur, n, f.samples_read, p, f.len)
                    cnt   == CopyCount(chunk, chan)
                IN  FlowLoop(
                      [f EXCEPT
                         !.copying = cop,
                         !.current_pos = cur,
                         !.obuf = IF cop
                                  THEN f.obuf \o SubSeq(ibuf, f.iptr + 1, f.iptr + cnt)
                                  ELSE f.obuf,
                         !.optr = IF cop THEN f.optr + cnt ELSE f.optr,
                         !.osamp = IF cop THEN f.osamp + cnt ELSE f.osamp,
                         !.iptr = f.iptr + cnt,
                         !.isamp = f.isamp + cnt,
                         !.samples_read = (f.samples_read + chunk) % Modulus,
                         !.len = f.len - chunk,
                         !.steps = f.steps + 1,
                         !.modes = f.modes \o Repeat(IF cop THEN "copy" ELSE "drop", chunk)],
                      n, p, chan, ibuf)

\* lines 147-179: one call of flow() with *isamp = isamp_in, *osamp = osamp_in
FlowCall(cur, sr, cop, n, p, chan, ibuf, isamp_in, osamp_in) ==
  FlowLoop([current_pos |-> cur, samples_read |-> sr, copying |-> cop,
            len |-> FrameCount(isamp_in, osamp_in, chan),
            steps |-> 0,
            fuel |-> FrameCount(isamp_in, osamp_in, chan) + (IF cur < n THEN n - cur ELSE 0),
            iptr |-> 0, optr |-> 0, isamp |-> 0, osamp |-> 0,
            obuf |-> <<>>, modes |-> <<>>, ret |-> "none"],
           n, p, chan, ibuf)

\* the samples of the stream from frame `from` on, cnt of them; a sample is
\* named by its index in the stream
StreamBuf(from, chan, cnt) == [k \in 1 .. cnt |-> from * chan + k - 1]

\* The host offers isamp_in samples of input not yet consumed and room for
\* osamp_in samples of output: less than, as much as, or more than the input.
Flow ==
  /\ phase \in {"ready", "flowing"}
  /\ flow_ret \notin {"SOX_EOF", "no return"}
  /\ inpos < nframes
  /\ \E isamp_in \in 1 .. Min(MaxBuf, (nframes - inpos) * channels) :
     \E osamp_in \in {1, isamp_in, MaxBuf} :
     \E f \in {FlowCall(current_pos, samples_read, copying, num_pos, pos, channels,
                       StreamBuf(inpos, channels, isamp_in), isamp_in, osamp_in)} :
           /\ current_pos' = f.current_pos
           /\ samples_read' = f.samples_read
           /\ copying' = f.copying
           /\ flow_ret' = f.ret
           /\ out' = out \o f.obuf
           /\ isamp_total' = isamp_total + f.isamp
           /\ osamp_total' = osamp_total + f.osamp
           /\ inpos' = inpos + f.isamp \div channels
           /\ modes' = modes \o f.modes
  /\ phase' = "flowing"
  /\ UNCHANGED <<num_pos, pos, uses_end, channels, in_signal_length,
                 out_signal_length, start_ret, message, nframes, drain_ret, acked>>

\* ------------------------------------------------------------- drain()
\* the test with an off-by-one bound
DrainWarnsButLast(cur, n) == cur + 1 < n

\* line 185
DrainWarns(cur, n) == cur < n

\* Called once the input has ended or flow has returned SOX_EOF.
Drain ==
  /\ phase \in {"ready", "flowing"}
  /\ inpos = nframes \/ flow_ret = "SOX_EOF"
  /\ osamp_total' = osamp_total + 0
  /\ message' = IF DrainWarns(current_pos, num_pos)
                THEN [text |-> "Audio shorter than expected; last %u positions not reached.",
                      n |-> num_pos - current_pos]
                ELSE message
  /\ drain_ret' = "SOX_EOF"
  /\ phase' = "drained"
  /\ UNCHANGED privVars
  /\ UNCHANGED <<channels, in_signal_length, out_signal_length, start_ret,
                 nframes, inpos, out, isamp_total, flow_ret, acked, modes>>

\* ------------------------------------------- start-skip optimisation
\* line 224
GetStart(n, p, chan) == IF n # 0 THEN (p[1].sample * chan) % Modulus ELSE 0

\* samples_read cleared instead of moved to the first position
ClearStartZero(n, p) == 0

\* line 230
ClearStartValue(n, p) == IF n # 0 THEN p[1].sample ELSE 0

\* the frame of the stream the host pushes first: the frame of the first
\* position after a seek (the end of a shorter stream), else frame 0
FirstFrame(seeked) ==
  IF seeked /\ num_pos # 0 THEN Min(pos[1].sample, nframes) ELSE 0

\* The host has moved the input to the frame of the first position (or to
\* the end of a shorter stream) and calls sox_trim_clear_start(), once,
\* before the first flow().
ClearStart ==
  /\ phase = "ready"
  /\ ~acked
  /\ samples_read' = ClearStartValue(num_pos, pos)
  /\ acked' = TRUE
  /\ inpos' = FirstFrame(TRUE)
  /\ modes' = Repeat("seek", FirstFrame(TRUE))
  /\ UNCHANGED <<phase, num_pos, pos, current_pos, copying, uses_end, channels,
                 in_signal_length, out_signal_length, start_ret, message, nframes,
                 out, isamp_total, osamp_total, flow_ret, drain_ret>>

\* ===================================================================
\* Properties
\* ===================================================================
Started == start_ret # "none"
Succeeded == start_ret = "SOX_SUCCESS"
Done == phase = "drained"
KnownLength == in_signal_length # SOX_UNKNOWN_LEN
WarnText == "Audio shorter than expected; last %u positions not reached."
Warned == message.text = WarnText
Last == pos[num_pos].sample

\* the number of positions at or before frame i
PositionsUpTo(i) == Cardinality({k \in 1 .. num_pos : pos[k].sample <= i})
Kept(i) == PositionsUpTo(i) % 2 = 1
ModeOf(i) == IF Kept(i) THEN "copy" ELSE "drop"

\* the samples of the kept frames among i .. upto-1, in stream order
RECURSIVE KeptSamples(_, _)
KeptSamples(i, upto) ==
  IF i >= upto THEN <<>>
  ELSE (IF Kept(i) THEN StreamBuf(i, channels, channels) ELSE <<>>)
       \o KeptSamples(i + 1, upto)

\* C1: once the stream has been pushed through flow (in buffers of any sizes)
\* and drained, the output is exactly the samples of the frames i that have an
\* odd number of positions at or before i, in order, all channels of each.
C1_OutputIsKeptFrames == Done => out = KeptSamples(0, nframes)

C1_Witness ==
  /\ Done /\ ~acked /\ channels = 2 /\ num_pos = 3
  /\ pos[1].sample = 0 /\ pos[2].sample = 1 /\ pos[3].sample = 2
  /\ nframes = 3
  /\ out = <<0, 1, 4, 5>>

\* the declared length as the sum of the kept spans, in unbounded integers
RECURSIVE SpanSum(_)
SpanSum(i) ==
  IF i + 1 > num_pos THEN 0
  ELSE (pos[i + 1].sample - pos[i].sample) + SpanSum(i + 2)

DeclaredFrames ==
  SpanSum(1) + (IF num_pos % 2 = 1
                THEN InLength(in_signal_length, channels) - Last ELSE 0)

\* C2: with a known input length, a successful start and a stream of exactly
\* that many frames, the samples reported as produced add up to the output
\* length start declared, which is the sum of the kept spans times channels.
C2_ProducedIsDeclared ==
  (Done /\ KnownLength /\ nframes = InLength(in_signal_length, channels))
    => /\ osamp_total = out_signal_length
       /\ out_signal_length = DeclaredFrames * channels

C2_Witness ==
  /\ Done /\ KnownLength /\ nframes = InLength(in_signal_length, channels)
  /\ num_pos = 3 /\ channels = 2
  /\ pos[1].sample < pos[2].sample /\ pos[2].sample < pos[3].sample
  /\ Last < nframes
  /\ osamp_total = 4

\* the whole stream (from the frame the host starts at) in one call of flow
OneCall ==
  LET from == FirstFrame(acked)
      cnt  == (nframes - from) * channels
  IN  FlowCall(0, IF acked THEN ClearStartValue(num_pos, pos) ELSE 0, FALSE,
               num_pos, pos, channels, StreamBuf(from, channels, cnt), cnt, cnt)

\* C3: however the input was cut into buffers, the output is that of one call
\* with the whole input; and the frame at a position's offset is handled in
\* the mode after the toggle, the frame before it in the mode before.
C3_ChunkingIrrelevant ==
  /\ Done => /\ out = OneCall.obuf
             /\ SubSeq(modes, FirstFrame(acked) + 1, Len(modes)) = OneCall.modes
  /\ Succeeded =>
       \A k \in 1 .. num_pos :
         LET i == pos[k].sample
         IN  /\ (i < Len(modes) /\ modes[i + 1] # "seek") => modes[i + 1] = ModeOf(i)
             /\ (i >= 1 /\ i <= Len(modes) /\ modes[i] # "seek")
                  => modes[i] = ModeOf(i - 1)

\* a call has ended exactly at the offset of the next position, after a kept
\* or dropped frame, and more input is to come
C3_Witness ==
  /\ phase = "flowing" /\ inpos >= 2 /\ inpos < nframes
  /\ current_pos = 1 /\ num_pos = 2
  /\ samples_read = pos[2].sample
  /\ modes[inpos] = "copy" /\ modes[inpos - 1] = "drop"

NonDecreasing == \A i, j \in 1 .. num_pos : i <= j => pos[i].sample <= pos[j].sample

\* the sum last_seen + value of entry i exceeds the counter, walking the
\* entries as start does (0 if none does, or start failed before)
RECURSIVE FirstWrap(_, _)
FirstWrap(i, last_seen) ==
  IF i > num_pos THEN 0
  ELSE IF pos[i].anchor = "a_latest" /\ last_seen + pos[i].argstr >= Modulus THEN i
  ELSE FirstWrap(i + 1, pos[i].sample)

\* C4: if start does not fail the resolved offsets are non-decreasing; a sum
\* last_seen + value that wraps around makes start fail.
C4_OffsetsNonDecreasing ==
  /\ start_ret \in {"SOX_SUCCESS", "SOX_EFF_NULL"} => NonDecreasing
  /\ (Started /\ FirstWrap(1, 0) # 0) => start_ret = "SOX_EOF"

C4_Witness ==
  /\ Succeeded /\ num_pos = 3
  /\ pos[1].anchor = "a_start" /\ pos[2].anchor = "a_latest" /\ pos[3].anchor = "a_end"
  /\ pos[1].sample < pos[2].sample /\ pos[2].sample < pos[3].sample

C4_WitnessWrap ==
  /\ start_ret = "SOX_EOF" /\ FirstWrap(1, 0) = 2 /\ ~uses_end
  /\ message.text = "Position %u is behind the following position."

\* C5: a position relative to the end with an unknown input length makes start
\* fail at once: no offset is resolved and no output length is declared.
C5_LengthRequired ==
  (Started /\ ~KnownLength /\ \E k \in 1 .. num_pos : pos[k].anchor = "a_end")
    => /\ start_ret = "SOX_EOF"
       /\ message.text = "Can't use positions relative to end: audio length is unknown."
       /\ \A k \in 1 .. num_pos : pos[k].sample = 0
       /\ out_signal_length = NotSet

C5_Witness ==
  /\ Started /\ ~KnownLength /\ num_pos = 3
  /\ pos[1].anchor = "a_start" /\ pos[1].argstr = 1
  /\ pos[2].anchor = "a_latest" /\ pos[3].anchor = "a_end"
  /\ start_ret = "SOX_EOF"

\* C6: start returns SOX_EFF_NULL exactly when it does not fail and there is
\* one position, at offset 0; otherwise, if it does not fail, SOX_SUCCESS.
C6_NullIffSingleZero ==
  Started =>
    /\ start_ret = "SOX_EFF_NULL"
         <=> (start_ret # "SOX_EOF" /\ num_pos = 1 /\ pos[1].sample = 0)
    /\ (start_ret # "SOX_EOF" /\ ~(num_pos = 1 /\ pos[1].sample = 0))
         => start_ret = "SOX_SUCCESS"

C6_Witness ==
  /\ start_ret = "SOX_EFF_NULL" /\ pos[1].anchor = "a_end" /\ pos[1].argstr > 0

C6_WitnessSuccess ==
  /\ Succeeded /\ num_pos = 2 /\ pos[1].sample = 0 /\ pos[2].sample = 0

DrainStep == phase # "drained" /\ phase' = "drained"

\* C7: drain returns SOX_EOF, reports no output, leaves current_pos,
\* samples_read and copying alone, and warns exactly when current_pos <
\* num_pos, naming num_pos - current_pos.
C7_Drain ==
  [][DrainStep =>
       /\ drain_ret' = "SOX_EOF"
       /\ osamp_total' = osamp_total /\ out' = out
       /\ current_pos' = current_pos
       /\ samples_read' = samples_read
       /\ copying' = copying
       /\ Warned' <=> current_pos < num_pos
       /\ Warned' => message'.n = num_pos - current_pos
       /\ ~Warned' => message' = message]_vars

C7_Witness ==
  /\ Done /\ Warned /\ message.n = 2 /\ num_pos = 3 /\ current_pos = 1 /\ copying

C7_WitnessQuiet ==
  /\ Done /\ ~Warned /\ num_pos = 3 /\ current_pos = 3 /\ inpos = nframes

\* C8: when drain warns, fewer frames were taken from the stream than the
\* offset of the last position.
C8_WarnedMeansShorter == (Done /\ Warned) => inpos < Last

C8_Witness ==
  /\ Done /\ Warned /\ KnownLength /\ nframes = InLength(in_signal_length, channels)
  /\ num_pos = 2 /\ pos[1].sample = 0 /\ Last = nframes /\ nframes = 2
  /\ inpos = nframes /\ current_pos = 1 /\ message.n = 1

\* C9: if the stream has more frames than the offset of the last position,
\* every position is reached, copying ends false for an even number of
\* positions, and drain does not warn.
C9_AllPositionsReached ==
  (Done /\ num_pos > 0 /\ nframes > Last)
    => /\ current_pos = num_pos
       /\ (num_pos % 2 = 0 => ~copying)
       /\ ~Warned

C9_Witness ==
  /\ Done /\ num_pos = 2 /\ nframes > Last /\ pos[1].sample = 0
  /\ Last = 2 /\ nframes = 3 /\ channels = 2 /\ out = <<0, 1, 2, 3>>
  /\ flow_ret = "SOX_EOF" /\ ~acked

\* the whole stream from frame 0 in one call of flow, without the seek
Unskipped ==
  LET cnt == nframes * channels
  IN  FlowCall(0, 0, FALSE, num_pos, pos, channels, StreamBuf(0, channels, cnt), cnt, cnt)

\* C10: after sox_trim_clear_start and a stream pushed from the frame of the
\* first position on, the output, the SOX_EOF of flow, the warning of drain and
\* the final current_pos and copying are those of the whole stream pushed
\* from frame 0.
C10_SkipEquivalent ==
  (Done /\ acked) =>
    /\ out = Unskipped.obuf
    /\ (flow_ret = "SOX_EOF") = (Unskipped.ret = "SOX_EOF")
    /\ Warned = DrainWarns(Unskipped.current_pos, num_pos)
    /\ Warned => message.n = num_pos - Unskipped.current_pos
    /\ current_pos = Unskipped.current_pos
    /\ copying = Unskipped.copying

C10_Witness ==
  /\ Done /\ acked /\ num_pos = 2 /\ pos[1].sample = 1 /\ Last = 2
  /\ nframes = 3 /\ channels = 2 /\ out = <<2, 3>> /\ flow_ret = "SOX_EOF"

\* the host may call flow: the stream has frames it has not consumed
CanFlow == phase \in {"ready", "flowing"} /\ inpos < nframes

\* the input sizes the host may offer in the current state
InputSizes == 1 .. Min(MaxBuf, (nframes - inpos) * channels)

\* the buffer sizes (input, output) the host may offer in the current state:
\* room for one sample or for a whole buffer
Offers == {<<i, o>> : i \in InputSizes, o \in {1, MaxBuf}}

\* the offers with as much room as input (flow uses the smaller of the two
\* sizes only, line 151)
EvenOffers == {<<i, i>> : i \in InputSizes}

\* flow called in the current state with io[1] samples of input and room for
\* io[2] samples of output
Call(io) ==
  FlowCall(current_pos, samples_read, copying, num_pos, pos, channels,
           StreamBuf(inpos, channels, io[1]), io[1], io[2])

\* C11: flow returns SOX_EOF exactly when a frame is left to process in the
\* call, all positions are reached and copying is false (that is: the number
\* of positions is even and the last one lies before the end of the buffer);
\* the counts it then reports are those of the frames processed before in the
\* call, and no frame at or after the last position is consumed.
C11_ExhaustedExactly ==
  CanFlow =>
    \A io \in EvenOffers :
      \A f \in {Call(io)} :
      LET L == FrameCount(io[1], io[2], channels)
          processed == L - f.len
      IN  /\ (f.ret = "SOX_EOF")
               <=> (f.len > 0 /\ f.current_pos >= num_pos /\ ~f.copying)
          /\ (f.ret = "SOX_EOF")
               <=> (L >= 1 /\ num_pos % 2 = 0
                    /\ (num_pos = 0 \/ Last - samples_read < L))
          /\ f.ret = "SOX_EOF" =>
               /\ f.isamp = processed * channels
               /\ f.obuf = KeptSamples(inpos, inpos + processed)
               /\ f.osamp = Len(f.obuf)
          /\ (num_pos > 0 /\ num_pos % 2 = 0)
               => inpos + f.isamp \div channels <= Last

\* flow has returned SOX_EOF at the last position, after a kept frame, with
\* two frames of the stream left
C11_Witness ==
  /\ phase = "flowing" /\ flow_ret = "SOX_EOF" /\ ~acked
  /\ channels = 2 /\ num_pos = 2 /\ pos[1].sample = 0 /\ Last = 1 /\ nframes = 3
  /\ inpos = 1 /\ isamp_total = 2 /\ osamp_total = 2 /\ out = <<0, 1>>

\* C12: the declared output length is unknown exactly when the number of
\* positions is odd and the input length is unknown; with an even number and
\* an unknown input length it is the sum of the kept spans times channels.
C12_UnknownIffOpenAndUnknown ==
  Succeeded =>
    /\ (out_signal_length = SOX_UNKNOWN_LEN) <=> (num_pos % 2 = 1 /\ ~KnownLength)
    /\ (num_pos % 2 = 0 /\ ~KnownLength) => out_signal_length = SpanSum(1) * channels

\* the statement of C12 restricted to span sums that, times channels, stay
\* below the largest value of the counter
C12_WithinCounter ==
  (Succeeded /\ SpanSum(1) * channels < SOX_UNKNOWN_LEN) =>
    /\ (out_signal_length = SOX_UNKNOWN_LEN) <=> (num_pos % 2 = 1 /\ ~KnownLength)
    /\ (num_pos % 2 = 0 /\ ~KnownLength) => out_signal_length = SpanSum(1) * channels

BeforeStartText == "Position %u is before start of audio."

\* the positions relative to the end whose value exceeds the input length
TooFarBack ==
  {k \in 1 .. num_pos : pos[k].anchor = "a_end"
                        /\ pos[k].argstr > InLength(in_signal_length, channels)}

\* C13: with a known length, start fails with "before start of audio" exactly
\* when a position relative to the end has a value above the length (naming the
\* first such); otherwise every such position is at length - value, within
\* 0 .. length.
C13_EndRelative ==
  (Started /\ KnownLength) =>
    LET L == InLength(in_signal_length, channels)
    IN  /\ TooFarBack # {} =>
              /\ start_ret = "SOX_EOF"
              /\ message = [text |-> BeforeStartText,
                            n |-> CHOOSE k \in TooFarBack : \A j \in TooFarBack : k <= j]
        /\ TooFarBack = {} =>
              /\ message.text # BeforeStartText
              /\ \A k \in 1 .. num_pos :
                   pos[k].anchor = "a_end" =>
                     /\ pos[k].sample = L - pos[k].argstr
                     /\ pos[k].sample >= 0 /\ pos[k].sample <= L

C13_Witness ==
  /\ Started /\ KnownLength /\ InLength(in_signal_length, channels) = 2
  /\ num_pos = 3 /\ pos[1].anchor = "a_start" /\ pos[1].sample = 1
  /\ pos[2].anchor = "a_end" /\ pos[2].argstr = Modulus - 1
  /\ start_ret = "SOX_EOF" /\ message.text = BeforeStartText /\ message.n = 2

C13_WitnessResolved ==
  /\ Succeeded /\ KnownLength /\ InLength(in_signal_length, channels) = 3
  /\ num_pos = 2 /\ pos[1].anchor = "a_end" /\ pos[1].argstr = 1 /\ pos[1].sample = 2
  /\ pos[2].anchor = "a_end" /\ pos[2].argstr = 0 /\ pos[2].sample = 3

\* C14: with a known length, if start does not fail every resolved offset is
\* at most the length in frames; a first or last offset beyond it makes start
\* fail.
C14_OffsetsWithinLength ==
  /\ (start_ret \in {"SOX_SUCCESS", "SOX_EFF_NULL"} /\ KnownLength)
       => \A k \in 1 .. num_pos : pos[k].sample <= InLength(in_signal_length, channels)
  /\ (Started /\ KnownLength /\ num_pos > 0
      /\ message.text \in {"Start position after end of audio.",
                           "End position after end of audio."})
       => /\ start_ret = "SOX_EOF"
          /\ \/ pos[1].sample > InLength(in_signal_length, channels)
             \/ Last > InLength(in_signal_length, channels)

C14_Witness ==
  /\ Succeeded /\ KnownLength /\ InLength(in_signal_length, channels) = 2
  /\ num_pos = 3 /\ pos[1].sample = 0 /\ pos[2].sample = 1 /\ pos[3].sample = 2

C14_WitnessBeyond ==
  /\ start_ret = "SOX_EOF" /\ KnownLength /\ num_pos = 3
  /\ pos[1].sample <= InLength(in_signal_length, channels)
  /\ Last > InLength(in_signal_length, channels)
  /\ message.text = "End position after end of audio."

\* C15: copying is true exactly when current_pos is odd, in every state (it
\* starts false with current_pos 0 and flips once for each position passed,
\* positions with equal offsets included).
C15_CopyingIffOddCursor == copying <=> current_pos % 2 = 1

C15_Witness ==
  /\ phase = "flowing" /\ num_pos = 3 /\ current_pos = 3 /\ copying
  /\ pos[1].sample = 1 /\ pos[2].sample = 1 /\ pos[3].sample = 1 /\ inpos = 2

\* C16: after a successful start current_pos <= num_pos and, while a position
\* is left, samples_read is at most its offset: the subtraction that sizes a
\* chunk does not underflow and no position is skipped.
C16_CursorNotPassed ==
  Succeeded =>
    /\ current_pos <= num_pos
    /\ current_pos < num_pos => samples_read <= pos[current_pos + 1].sample
    /\ current_pos > 0 => pos[current_pos].sample <= samples_read

C16_Witness ==
  /\ phase = "flowing" /\ acked /\ num_pos = 3 /\ current_pos = 2
  /\ pos[1].sample = 1 /\ pos[2].sample = 2 /\ pos[3].sample = Modulus - 1
  /\ samples_read = 3 /\ inpos = 3

\* C17: for every call of flow, produced <= consumed <= min(input offered,
\* output room), both are multiples of channels, consumed is the increase of
\* samples_read times channels, and neither buffer is passed.
C17_CountsWithinBuffers ==
  CanFlow =>
    \A io \in Offers :
      \A f \in {Call(io)} :
          /\ f.osamp <= f.isamp
          /\ f.isamp <= Min(io[1], io[2])
          /\ f.isamp % channels = 0 /\ f.osamp % channels = 0
          /\ f.isamp = ((f.samples_read - samples_read) % Modulus) * channels
          /\ f.iptr = f.isamp /\ f.iptr <= io[1]
          /\ f.optr = f.osamp /\ f.optr <= io[2] /\ Len(f.obuf) = f.optr

\* flow has consumed two frames of two channels and kept the second, and a
\* call offered two frames with room for three samples passes on one frame
C17_Witness ==
  /\ phase = "flowing" /\ channels = 2 /\ isamp_total = 4 /\ osamp_total = 2
  /\ inpos = 2 /\ nframes = 3 /\ copying /\ num_pos = 1
  /\ Call(<<2, 3>>).isamp = 2 /\ Call(<<2, 3>>).osamp = 2

\* C18: every call of flow returns.  FlowLoop gives "no return" when the loop
\* has made more passes than frames offered plus positions left, which a loop
\* whose every pass moves current_pos on or consumes a frame cannot do; no
\* call ends so, positions with equal offsets included.
C18_FlowReturns == flow_ret # "no return"

\* positions 0, 0, 1: the first frame was consumed by a call that toggled
\* twice, the first time with a chunk of no frames, before taking the frame
C18_Witness ==
  /\ phase = "flowing" /\ ~acked /\ flow_ret = "SOX_SUCCESS" /\ num_pos = 3
  /\ pos[1].sample = 0 /\ pos[2].sample = 0 /\ pos[3].sample = 1
  /\ current_pos = 2 /\ samples_read = 1 /\ inpos = 1 /\ isamp_total = channels
  /\ osamp_total = 0

\* C19: once flow has returned SOX_EOF, a further call with at least one
\* whole frame of input and of room returns SOX_EOF with nothing consumed or
\* produced and leaves current_pos, samples_read and copying as they are (so
\* the same holds of every later call).
C19_ExhaustedAbsorbing ==
  (phase \in {"flowing", "drained"} /\ flow_ret = "SOX_EOF") =>
    \A io \in {<<i, o>> \in (1 .. MaxBuf) \X (1 .. MaxBuf) : o \in {i, MaxBuf}} :
      FrameCount(io[1], io[2], channels) >= 1 =>
        \A f \in {Call(io)} :
            /\ f.ret = "SOX_EOF"
            /\ f.isamp = 0 /\ f.osamp = 0 /\ f.obuf = <<>>
            /\ f.current_pos = current_pos
            /\ f.samples_read = samples_read
            /\ f.copying = copying

C19_Witness ==
  /\ phase = "flowing" /\ flow_ret = "SOX_EOF" /\ num_pos = 2 /\ current_pos = 2
  /\ pos[1].sample = 1 /\ Last = 1 /\ inpos = 1 /\ nframes = 3
  /\ Call(<<2, 2>>).ret = "SOX_EOF"

\* C20: with no positions start succeeds and declares an output length of 0,
\* known input length or not; flow called with a whole frame returns SOX_EOF
\* with nothing consumed or produced, drain does not warn, and
\* sox_trim_get_start returns 0.
C20_NoPositions ==
  (Started /\ num_pos = 0) =>
    /\ start_ret = "SOX_SUCCESS"
    /\ out_signal_length = 0
    /\ GetStart(num_pos, pos, channels) = 0
    /\ isamp_total = 0 /\ osamp_total = 0 /\ out = <<>>
    /\ flow_ret \in {"none", "SOX_SUCCESS", "SOX_EOF"}
    /\ ~Warned
    /\ CanFlow =>
         \A io \in Offers :
           \A f \in {Call(io)} :
               /\ FrameCount(io[1], io[2], channels) >= 1 => f.ret = "SOX_EOF"
               /\ f.isamp = 0 /\ f.osamp = 0

C20_Witness ==
  /\ Done /\ num_pos = 0 /\ ~KnownLength /\ nframes = 3 /\ flow_ret = "SOX_EOF"
  /\ out_signal_length = 0 /\ inpos = 0 /\ ~Warned

Next == Parse \/ Start \/ ClearStart \/ Flow \/ Drain

Spec == Init /\ [][Next]_vars

\* The runs up to the end of the input: the host starts the effect and calls
\* flow, and has not called drain.  The states in which flow can be called
\* are those of Spec (drain is the last call of a run).
NextFlowing == Parse \/ Start \/ ClearStart \/ Flow

SpecFlowing == Init /\ [][NextFlowing]_vars
====
